---- MODULE Spec2Model ----
(***************************************************************************)
(* QTGuard: hybrid retrieval, evidence-confidence gate and guarded output  *)
(* composer (qtguard_core/retrieval.py, rag_pipeline.py, guardrails.py,    *)
(* schema.py).                                                             *)
(*                                                                         *)
(* Representation                                                          *)
(*  - A mini-chart is a sequence of lines; a line is a sequence of fields  *)
(*    separated by "; "; a field is  label sep value.  A value is a        *)
(*    number ("num", fixed point, tenths), a digit/dot run that float()    *)
(*    rejects such as "2.9." ("bad"), a word such as "unknown" ("word"),   *)
(*    or a comma separated medication list ("list").                       *)
(*  - Reranker scores and thresholds are fixed point, hundredths           *)
(*    (0.5 is 50).  top_score and margin are extended reals                *)
(*    [inf |-> -1 | 0 | 1, v |-> hundredths].                              *)
(*  - Strings of the output are tagged records: the tag names the literal  *)
(*    sentence of the source, the other fields are its interpolated parts. *)
(***************************************************************************)
EXTENDS Integers, Sequences, FiniteSets

VARIABLES
    mini_chart,        \* argument of run_qtguard_with_retrieval
    score_threshold,   \* argument, hundredths
    margin_threshold,  \* argument, hundredths
    top_n_notes,       \* argument
    rows,              \* HybridRetriever.rows (the loaded corpus)
    candidate_k,       \* HybridRetriever.candidate_k
    top_k,             \* HybridRetriever.top_k
    bm25_order,        \* row indices (1-based) by BM25 score, descending, for the query
    vec_order,         \* row indices by dense similarity, descending, for the query
    rr,                \* reranker logit of (query, row text), by row index
    pc,                \* position in the Generate-plan handler / run_qtguard_with_retrieval
    query,             \* the string passed to retriever.search
    evidence,          \* result of retriever.search(query)
    plan,              \* result of _build_evidence_guided_plan
    out,               \* output dictionary (base / out_dict)
    weak_for_eval,     \* returned effective weak flag
    results,           \* what each completed call of run_qtguard_with_retrieval returned
    cache,             \* the lru_cache of get_retriever: None or Some(instance)
    constructions,     \* number of times HybridRetriever.__init__ has run
    tpc,               \* per thread: position in get_retriever()
    tgot,              \* per thread: the instance it holds (0: none yet)
    gen                \* generate_qtguard_output: retries, attempt, the prompts sent,
                       \* the decoded texts, last_error, result, position

vars == <<mini_chart, score_threshold, margin_threshold, top_n_notes, rows,
          candidate_k, top_k, bm25_order, vec_order, rr, pc, query, evidence,
          plan, out, weak_for_eval, results, cache, constructions, tpc, tgot, gen>>

----------------------------------------------------------------------------
(* Generic helpers *)

None == <<>>
Some(v) == <<v>>

RECURSIVE Flatten(_)
Flatten(ss) == IF ss = <<>> THEN <<>> ELSE Head(ss) \o Flatten(Tail(ss))

SeqSet(s) == {s[i] : i \in 1..Len(s)}

Min2(a, b) == IF a < b THEN a ELSE b

----------------------------------------------------------------------------
(* Mini-chart text *)

Field(label, sep, kind, num, word, items) ==
    [label |-> label, sep |-> sep, kind |-> kind, num |-> num,
     word |-> word, items |-> items]

NumField(label, sep, n) == Field(label, sep, "num", n, "", <<>>)
BadField(label, sep) == Field(label, sep, "bad", 0, "", <<>>)
WordField(label, sep, w) == Field(label, sep, "word", 0, w, <<>>)
MedsField(label, sep, items) == Field(label, sep, "list", 0, "", items)
Med(name, prn) == [name |-> name, prn |-> prn]

\* str.lower() / re.IGNORECASE on the labels and words the charts use
Lower(s) ==
    CASE s = "QTc" -> "qtc"
      [] s = "K" -> "k"
      [] s = "Mg" -> "mg"
      [] s = "HR" -> "hr"
      [] s = "Potassium" -> "potassium"
      [] s = "Magnesium" -> "magnesium"
      [] s = "Meds" -> "meds"
      [] s = "Unknown" -> "unknown"
      [] s = "N/A" -> "n/a"
      [] s = "CHF" -> "chf"
      [] s = "Telemetry monitoring" -> "telemetry monitoring"
      [] OTHER -> s

\* Python's  term in text  on lower-cased text, for the words the charts and
\* the corpus use
Substr(term, text) ==
    \/ term = text
    \/ <<term, text>> \in {<<"faint", "fainting">>, <<"syncope", "near syncope">>,
                           <<"telemetry", "telemetry monitoring">>}

\* all fields of the chart in text order
ChartFields(chart) == Flatten(chart)

\* every label, word and medication name of the chart, lower-cased
\* the words a field puts in the text; a free-text note has no label
FieldText(f) == IF f.label = "note" THEN f.word ELSE f.label
FieldWords(f) ==
    {Lower(FieldText(f)), Lower(f.word)} \cup {Lower(f.items[j].name) : j \in 1..Len(f.items)}
WordsOf(fs) == UNION {FieldWords(fs[i]) : i \in 1..Len(fs)}
ChartWords(chart) == WordsOf(ChartFields(chart))

Minimum(S) == CHOOSE x \in S : \A y \in S : x <= y

\* re.search(r"<label>\s*=\s*([0-9.]+)", text, IGNORECASE): the leftmost field
\* written  <label>=<run of digits and dots>
NumHits(labels, fs) ==
    {i \in 1..Len(fs) : /\ Lower(fs[i].label) \in labels
                        /\ fs[i].sep = "="
                        /\ fs[i].kind \in {"num", "bad"}}
FirstHit(fs, hit) == IF hit = {} THEN None ELSE Some(fs[Minimum(hit)])
NumMatchIn(labels, fs) == FirstHit(fs, NumHits(labels, fs))
NumMatch(labels, text) == NumMatchIn(labels, ChartFields(text))

\* float(m.group(1)), tenths; None when there is no match or float() raises
FloatOf(m) ==
    IF m = None THEN None
    ELSE IF m[1].kind = "bad" THEN None
    ELSE Some(m[1].num)
_extract_float(labels, text) == FloatOf(NumMatch(labels, text))

\* int(float(m.group(1))): truncation to whole units
IntOf(m) ==
    IF m = None THEN None
    ELSE IF m[1].kind = "bad" THEN None
    ELSE Some(m[1].num \div 10)
_extract_int(labels, text) == IntOf(NumMatch(labels, text))

BlobPlaceholders == {"?", "unknown", "n/a", "na", "none listed"}
ItemPlaceholders == {"?", "unknown", "n/a", "na"}

\* re.search(r"(?im)^\s*meds?\s*:\s*(.+?)\s*$"): the first line that BEGINS
\* with a Meds label followed by ":"; the blob is the rest of that line
MedsLines(text) ==
    {i \in 1..Len(text) : /\ text[i] # <<>>
                          /\ Lower(text[i][1].label) \in {"med", "meds"}
                          /\ text[i][1].sep = ":"}

\* the blob split on "," ";" "\n": the items of the Meds field, then one item
\* per later field of the same line (its text, named here by its label)
BlobItems(line) ==
    line[1].items \o [j \in 1..(Len(line) - 1) |-> Med(FieldText(line[j + 1]), FALSE)]

RECURSIVE KeepMeds(_)
\* PRN suffix stripped, then placeholders dropped
KeepMeds(items) ==
    IF items = <<>> THEN <<>>
    ELSE (IF Lower(Head(items).name) \in ItemPlaceholders
          THEN <<>> ELSE <<Head(items).name>>) \o KeepMeds(Tail(items))

MedsOfBlob(blob) ==
    IF /\ Len(blob) = 1
       /\ ~blob[1].prn
       /\ Lower(blob[1].name) \in BlobPlaceholders
    THEN <<>>
    ELSE KeepMeds(blob)
MedsOfLines(text, ls) ==
    IF ls = {} THEN <<>> ELSE MedsOfBlob(BlobItems(text[Minimum(ls)]))
_extract_meds(text) == MedsOfLines(text, MedsLines(text))

\* _has_symptom: any term is a substring of the lower-cased chart
_has_symptom(text, terms) ==
    \E t \in terms : \E w \in ChartWords(text) : Substr(t, w)

\* (k <= 3.5, mg <= 1.8), tenths
LowNormalK == 35
LowNormalMg == 18
_is_low_normal_k_mg(k, mg) ==
    <<k # None /\ k[1] <= LowNormalK, mg # None /\ mg[1] <= LowNormalMg>>

----------------------------------------------------------------------------
(* guardrails.py *)

LabelQTc == "QTc"
LabelK == "Potassium (K)"
LabelMg == "Magnesium (Mg)"
LabelMeds == "Medication list"

\* _REQUIRED_PATTERNS, searched in the raw text
PatternQTc(text) ==
    \E w \in ChartWords(text) : w \in {"qtc", "qt c", "qt interval"}

LabPatternIn(fs, word, symbol) ==
    \/ word \in WordsOf(fs)
    \/ \E i \in 1..Len(fs) : /\ Lower(fs[i].label) = symbol
                             /\ fs[i].sep \in {":", "="}
                             /\ fs[i].kind \in {"num", "bad"}
LabPattern(text, word, symbol) == LabPatternIn(ChartFields(text), word, symbol)

PatternK(text) == LabPattern(text, "potassium", "k")
PatternMg(text) == LabPattern(text, "magnesium", "mg")

\* the magnesium pattern is not searched
find_missing_inputs_NoMg(text) ==
    (IF ~PatternQTc(text) THEN <<LabelQTc>> ELSE <<>>)
    \o (IF ~PatternK(text) THEN <<LabelK>> ELSE <<>>)

find_missing_inputs(text) ==
    (IF ~PatternQTc(text) THEN <<LabelQTc>> ELSE <<>>)
    \o (IF ~PatternK(text) THEN <<LabelK>> ELSE <<>>)
    \o (IF ~PatternMg(text) THEN <<LabelMg>> ELSE <<>>)

----------------------------------------------------------------------------
(* schema.py, guardrails.py: the baseline output *)

TextNote(t) == [kind |-> "text", text |-> t, nums |-> <<>>, strs |-> <<>>, flag |-> FALSE]
Item(kind, inputs) == [kind |-> kind, inputs |-> inputs]
Summary(kind, flags) == [kind |-> kind, flags |-> flags]

\* QTGuardOutput.deferral(missing)
deferral(missing) ==
    [risk_summary |-> Summary("insufficient_information", <<>>),
     action_plan |-> <<Item("request_missing_inputs", <<>>),
                       Item("no_medication_changes", <<>>)>>,
     patient_counseling |-> "confirm_missing_items",
     audit_view |->
        [missing_data |-> missing,
         notes |-> <<TextNote("Safe deferral triggered: required inputs not found in mini-chart."),
                     TextNote("This is a decision-support demo, not a medical device.")>>]]

SafeOutputFor(missing) ==
    IF missing # <<>> THEN deferral(missing)
    ELSE
    [risk_summary |-> Summary("placeholder", <<>>),
     action_plan |-> <<Item("placeholder_connect", <<>>),
                       Item("placeholder_monitoring", <<>>),
                       Item("placeholder_review", <<>>)>>,
     patient_counseling |-> "placeholder_counseling",
     audit_view |->
        [missing_data |-> <<>>,
         notes |-> <<TextNote("Guardrails check passed for required inputs (QTc, K, Mg)."),
                     TextNote("Returning placeholder output until MedGemma inference is connected.")>>]]
build_safe_output(text) == SafeOutputFor(find_missing_inputs(text))

----------------------------------------------------------------------------
(* retrieval.py *)

Get(c, key, default) == IF key \in DOMAIN c THEN c[key] ELSE default

Evidence(title, section, chunk_id, text, score) ==
    [title |-> title, section |-> section, chunk_id |-> chunk_id,
     text |-> text, score |-> score]

\* np.argsort(scores)[::-1][:candidate_k]
_bm25_candidates(order, k) == SubSeq(order, 1, Min2(k, Len(order)))

\* faiss returns exactly candidate_k ids, padded with -1 (here 0, no row)
_vector_candidates(order, k) ==
    [i \in 1..k |-> IF i <= Len(order) THEN order[i] ELSE 0]

RECURSIVE FromKeys(_, _)
\* list(dict.fromkeys(ids)): first occurrences, in order
FromKeys(ids, seen) ==
    IF ids = <<>> THEN <<>>
    ELSE IF Head(ids) \in seen THEN FromKeys(Tail(ids), seen)
    ELSE <<Head(ids)>> \o FromKeys(Tail(ids), seen \cup {Head(ids)})

RECURSIVE InsertDesc(_, _, _)
\* insert x after every element whose score is >= its own (stable, descending)
InsertDesc(sorted, x, score) ==
    IF sorted = <<>> THEN <<x>>
    ELSE IF score[Head(sorted)] >= score[x]
         THEN <<Head(sorted)>> \o InsertDesc(Tail(sorted), x, score)
         ELSE <<x>> \o sorted

RECURSIVE SortDesc(_, _, _)
\* sorted(..., key=score, reverse=True): stable, ties keep candidate order
SortDesc(ids, acc, score) ==
    IF ids = <<>> THEN acc
    ELSE SortDesc(Tail(ids), InsertDesc(acc, Head(ids), score), score)

RECURSIVE DedupLoop(_, _, _, _, _, _)
RECURSIVE DedupStep(_, _, _, _, _, _, _, _)
RECURSIVE DedupAppend(_, _, _, _, _, _)
\* the loop over ranked: skip a non-empty chunk_id already seen, append,
\* stop once len(out) >= top_k
\* a chunk_id already seen is appended again
DedupStep_NoSkip(ranked, R, score, tk, seen, acc, c, cid) ==
    DedupAppend(ranked, R, score, tk,
                IF cid # "" THEN seen \cup {cid} ELSE seen,
                Append(acc, Evidence(Get(c, "title", ""), Get(c, "section", ""),
                                     cid, Get(c, "text", ""), score[Head(ranked)])))

DedupLoop(ranked, R, score, tk, seen, acc) ==
    IF ranked = <<>> THEN acc
    ELSE DedupStep(ranked, R, score, tk, seen, acc, R[Head(ranked)],
                   Get(R[Head(ranked)], "chunk_id", ""))
DedupStep(ranked, R, score, tk, seen, acc, c, cid) ==
    IF cid # "" /\ cid \in seen
    THEN DedupLoop(Tail(ranked), R, score, tk, seen, acc)
    ELSE DedupAppend(ranked, R, score, tk,
                     IF cid # "" THEN seen \cup {cid} ELSE seen,
                     Append(acc, Evidence(Get(c, "title", ""), Get(c, "section", ""),
                                          cid, Get(c, "text", ""), score[Head(ranked)])))
DedupAppend(ranked, R, score, tk, seen2, acc2) ==
    IF Len(acc2) >= tk THEN acc2
    ELSE DedupLoop(Tail(ranked), R, score, tk, seen2, acc2)

\* HybridRetriever.search
\* cand_ids, and the rows they name: ids outside the corpus are dropped
Candidates(R, ck, bm25, vec) ==
    SelectSeq(FromKeys(_bm25_candidates(bm25, ck) \o _vector_candidates(vec, ck), {}),
              LAMBDA i : 1 <= i /\ i <= Len(R))
Rerank(candidates, R, tk, score) ==
    IF candidates = <<>> THEN <<>>
    ELSE DedupLoop(SortDesc(candidates, <<>>, score), R, score, tk, {}, <<>>)
search(R, ck, tk, bm25, vec, score) ==
    Rerank(Candidates(R, ck, bm25, vec), R, tk, score)

----------------------------------------------------------------------------
(* rag_pipeline.py *)

AnchorTerms == "QT prolongation torsades QTc telemetry repeat ECG ..."
_build_retrieval_query(text) == [anchor |-> AnchorTerms, chart |-> text]

\* extended reals: float("-inf"), finite hundredths, float("inf")
Fin(x) == [inf |-> 0, v |-> x]
NegInf == [inf |-> -1, v |-> 0]
PosInf == [inf |-> 1, v |-> 0]
Lt(a, b) == a.inf < b.inf \/ (a.inf = 0 /\ b.inf = 0 /\ a.v < b.v)
Ge(a, b) == ~Lt(a, b)

Borderline == 50

\* a missing runner-up counts as a margin of 0
Margin_ZeroWithoutSecond(top, second) ==
    IF second # NegInf THEN Fin(top.v - second.v) ELSE Fin(0)

Margin(top, second) == IF second # NegInf THEN Fin(top.v - second.v) ELSE PosInf
\* the margin is applied in both score regimes
Weak_MarginAlways(top, margin, st, mt) ==
    Lt(top, Fin(st)) \/ Lt(margin, Fin(mt))

Weak(top, margin, st, mt) ==
    IF Ge(top, Fin(Borderline))
    THEN Lt(top, Fin(st))
    ELSE Lt(top, Fin(st)) \/ Lt(margin, Fin(mt))
GateOf(top, margin, st, mt) ==
    [weak |-> Weak(top, margin, st, mt), top_score |-> top, margin |-> margin]
\* no evidence is scored like a list whose top is 0.0
_is_evidence_weak_EmptyAsZero(ev, st, mt) ==
    IF ev = <<>> THEN GateOf(Fin(0), Fin(0), st, mt)
    ELSE GateOf(Fin(ev[1].score),
                Margin(Fin(ev[1].score),
                       IF Len(ev) > 1 THEN Fin(ev[2].score) ELSE NegInf),
                st, mt)

_is_evidence_weak(ev, st, mt) ==
    IF ev = <<>> THEN [weak |-> TRUE, top_score |-> NegInf, margin |-> Fin(0)]
    ELSE GateOf(Fin(ev[1].score),
                Margin(Fin(ev[1].score),
                       IF Len(ev) > 1 THEN Fin(ev[2].score) ELSE NegInf),
                st, mt)

HighQtc == 500
BradyHr == 60
LowK == 35
LowMg == 18
MultiDrugs == 2

Flag(name, v) == [name |-> name, v |-> v]

\* the medication list is not required
MissingInputs_NoMeds(qtc, k, mg, meds) ==
    (IF qtc = None THEN <<LabelQTc>> ELSE <<>>)
    \o (IF k = None THEN <<LabelK>> ELSE <<>>)
    \o (IF mg = None THEN <<LabelMg>> ELSE <<>>)

MissingInputs(qtc, k, mg, meds) ==
    (IF qtc = None THEN <<LabelQTc>> ELSE <<>>)
    \o (IF k = None THEN <<LabelK>> ELSE <<>>)
    \o (IF mg = None THEN <<LabelMg>> ELSE <<>>)
    \o (IF meds = <<>> THEN <<LabelMeds>> ELSE <<>>)

\* medications with a low electrolyte do not count
TelemetryRecommended_NoLowElectrolytes(evidence_mentions_telemetry, high_qtc, brady, syncope_like, arrhythmia_like, structural, multi_qt_drugs, meds, low_k, low_mg) ==
    \/ evidence_mentions_telemetry
    \/ high_qtc
    \/ brady
    \/ syncope_like
    \/ arrhythmia_like
    \/ structural
    \/ multi_qt_drugs

TelemetryRecommended(evidence_mentions_telemetry, high_qtc, brady, syncope_like, arrhythmia_like, structural, multi_qt_drugs, meds, low_k, low_mg) ==
    \/ evidence_mentions_telemetry
    \/ high_qtc
    \/ brady
    \/ syncope_like
    \/ arrhythmia_like
    \/ structural
    \/ multi_qt_drugs
    \/ (meds # <<>> /\ (low_k \/ low_mg))

Flags(qtc, hr, k, mg, meds, high_qtc, brady, low_k, low_mg, syncope_like) ==
    (IF high_qtc THEN <<Flag("QTc", qtc[1])>> ELSE <<>>)
    \o (IF low_k THEN <<Flag("K", k[1])>> ELSE <<>>)
    \o (IF low_mg THEN <<Flag("Mg", mg[1])>> ELSE <<>>)
    \o (IF brady THEN <<Flag("HR", hr[1])>> ELSE <<>>)
    \o (IF meds # <<>> THEN <<Flag("meds listed", Len(meds))>> ELSE <<>>)
    \o (IF syncope_like THEN <<Flag("syncope", 0)>> ELSE <<>>)

RiskSummary(flags) ==
    IF flags # <<>>
    THEN Summary("higher_risk_signals_present", flags)
    ELSE Summary("signals_not_derived", <<>>)

\* the deferral sentence is appended after the other items
ActionPlan_DeferralLast(missing_inputs, meds, high_qtc, low_k, low_mg, low_normal, telemetry_recommended) ==
    (IF low_k \/ low_mg \/ high_qtc
     THEN <<Item("correct_electrolytes_first", <<>>)>>
     ELSE IF low_normal[1] \/ low_normal[2]
     THEN <<Item("optimize_k_mg", <<>>)>>
     ELSE <<>>)
    \o (IF meds # <<>> THEN <<Item("review_qt_agents", <<>>)>> ELSE <<>>)
    \o (IF telemetry_recommended
        THEN <<Item("repeat_ecg_consider_telemetry", <<>>)>>
        ELSE <<Item("repeat_ecg_after_electrolytes", <<>>)>>)
    \o (IF Len(missing_inputs) > 0
        THEN <<Item("missing_key_inputs", missing_inputs)>> ELSE <<>>)

ActionPlan(missing_inputs, meds, high_qtc, low_k, low_mg, low_normal, telemetry_recommended) ==
    (IF Len(missing_inputs) > 0
     THEN <<Item("missing_key_inputs", missing_inputs)>> ELSE <<>>)
    \o (IF low_k \/ low_mg \/ high_qtc
        THEN <<Item("correct_electrolytes_first", <<>>)>>
        ELSE IF low_normal[1] \/ low_normal[2]
        THEN <<Item("optimize_k_mg", <<>>)>>
        ELSE <<>>)
    \o (IF meds # <<>> THEN <<Item("review_qt_agents", <<>>)>> ELSE <<>>)
    \o (IF telemetry_recommended
        THEN <<Item("repeat_ecg_consider_telemetry", <<>>)>>
        ELSE <<Item("repeat_ecg_after_electrolytes", <<>>)>>)

\* lines 173-252, from the derived booleans
PlanFromSignals(qtc, hr, k, mg, meds, high_qtc, brady, low_k, low_mg, syncope_like, arrhythmia_like, structural, evidence_mentions_telemetry, missing_inputs) ==
    [rs |-> RiskSummary(Flags(qtc, hr, k, mg, meds, high_qtc, brady, low_k, low_mg,
                              syncope_like)),
     ap |-> ActionPlan(missing_inputs, meds, high_qtc, low_k, low_mg,
                       _is_low_normal_k_mg(k, mg),
                       TelemetryRecommended(evidence_mentions_telemetry, high_qtc, brady,
                                            syncope_like, arrhythmia_like, structural,
                                            Len(meds) >= MultiDrugs, meds, low_k, low_mg)),
     pc |-> "qt_counseling",
     missing_critical |-> Len(missing_inputs) > 0]

\* lines 143-171, from the extracted fields
PlanFromFields(text, ev, qtc, hr, k, mg, meds) ==
    PlanFromSignals(qtc, hr, k, mg, meds,
        qtc # None /\ qtc[1] >= HighQtc,
        hr # None /\ hr[1] < BradyHr,
        k # None /\ k[1] < LowK,
        mg # None /\ mg[1] < LowMg,
        _has_symptom(text, {"syncope", "near syncope", "faint", "fainting"}),
        _has_symptom(text, {"palpitations", "torsades", "vtach", "ventricular", "seizure"}),
        _has_symptom(text, {"chf", "heart failure", "cardiomyopathy", "structural heart"}),
        \E i \in 1..Len(ev) : Substr("telemetry", Lower(ev[i].text)),
        MissingInputs(qtc, k, mg, meds))

_build_evidence_guided_plan(text, ev) ==
    PlanFromFields(text, ev,
                   _extract_int({"qtc"}, text),
                   _extract_int({"hr"}, text),
                   _extract_float({"k"}, text),
                   _extract_float({"mg"}, text),
                   _extract_meds(text))

\* bad_substrings of _strip_noise_notes found in a lower-cased string, for the
\* strings the notes of the model are made of
NoiseIn(text) ==
    IF text \in {"Returning placeholder output until MedGemma inference is connected.",
                 "MedGemma model card"}
    THEN {"medgemma"} ELSE {}

\* the same for a whole note: its sentence and, for a citation, the title,
\* section and chunk_id written into it
NoiseOf(n) ==
    NoiseIn(n.text)
    \cup (IF n.kind = "citation"
          THEN NoiseIn(n.strs[1]) \cup NoiseIn(n.strs[2]) \cup NoiseIn(n.strs[3])
          ELSE {})

\* the cleaned list is one shared list that keeps what earlier calls put in it
_strip_noise_notes_SharedList(notes) ==
    (IF results = <<>> THEN <<>> ELSE results[Len(results)].out.audit_view.notes)
    \o SelectSeq(notes, LAMBDA n : NoiseOf(n) = {})

\* nothing is filtered
_strip_noise_notes_KeepAll(notes) == notes

_strip_noise_notes(notes) == SelectSeq(notes, LAMBDA n : NoiseOf(n) = {})

DiagNote(top_score, margin, weak, st, mt) ==
    [kind |-> "diagnostics", text |-> "Retrieval diagnostics:",
     nums |-> <<top_score, margin, Fin(st), Fin(mt)>>, strs |-> <<>>, flag |-> weak]

QueryNote(q) ==
    [kind |-> "query", text |-> "Retrieval query:", nums |-> <<>>,
     strs |-> <<q>>, flag |-> FALSE]

EvidenceNote(i, e) ==
    [kind |-> "citation", text |-> "[E]", nums |-> <<Fin(i), Fin(e.score)>>,
     strs |-> <<e.title, e.section, e.chunk_id>>, flag |-> FALSE]

\* every evidence item is cited, whatever top_n is
_evidence_notes_NoLimit(ev, top_n) ==
    IF ev = <<>> THEN <<TextNote("No evidence retrieved.")>>
    ELSE <<TextNote("Evidence retrieved (reranked):")>>
         \o [i \in 1..Len(ev) |-> EvidenceNote(i, ev[i])]

_evidence_notes(ev, top_n) ==
    IF ev = <<>> THEN <<TextNote("No evidence retrieved.")>>
    ELSE <<TextNote("Evidence retrieved (reranked):")>>
         \o [i \in 1..Min2(IF top_n < 0 THEN Len(ev) + top_n ELSE top_n, Len(ev))
               |-> EvidenceNote(i, ev[i])]

\* under a weak gate the two deferral items are not put in front of the plan
Overlay_NoPrepend(base, gate, built) ==
    IF gate.weak
    THEN [base EXCEPT !.risk_summary = Summary("evidence_confidence_low", <<>>)]
    ELSE [base EXCEPT
            !.risk_summary = built.rs,
            !.action_plan = built.ap,
            !.patient_counseling = built.pc]

\* lines 278-290: the overlay on the baseline output
Overlay(base, gate, built) ==
    IF gate.weak
    THEN [base EXCEPT
            !.risk_summary = Summary("evidence_confidence_low", <<>>),
            !.action_plan = <<Item("safe_deferral_confirm_inputs", <<>>),
                              Item("expand_knowledge_base", <<>>)>>
                            \o base.action_plan]
    ELSE [base EXCEPT
            !.risk_summary = built.rs,
            !.action_plan = built.ap,
            !.patient_counseling = built.pc]

\* the diagnostics note reports the raw gate flag
AppendedNotes_RawWeak(notes, gate, weak, q, ev, st, mt, top_n) ==
    notes
    \o <<DiagNote(gate.top_score, gate.margin, gate.weak, st, mt)>>
    \o <<QueryNote(q)>>
    \o _evidence_notes(ev, top_n)

\* lines 295-300: the notes appended after the noise filter
AppendedNotes(notes, gate, weak, q, ev, st, mt, top_n) ==
    notes
    \o <<DiagNote(gate.top_score, gate.margin, weak, st, mt)>>
    \o <<QueryNote(q)>>
    \o _evidence_notes(ev, top_n)

Returned(base2, notes2, weak, built) ==
    [base |-> [base2 EXCEPT !.audit_view.notes = notes2], weak_for_eval |-> weak,
     plan |-> built]

ComposeFrom(q, ev, st, mt, top_n, gate, base, built) ==
    Returned(Overlay(base, gate, built),
             AppendedNotes(_strip_noise_notes(base.audit_view.notes), gate,
                           gate.weak \/ built.missing_critical,
                           q, ev, st, mt, top_n),
             gate.weak \/ built.missing_critical,
             built)

\* lines 265-305 of run_qtguard_with_retrieval, after evidence = search(query)
compose(text, q, ev, st, mt, top_n) ==
    ComposeFrom(q, ev, st, mt, top_n,
                _is_evidence_weak(ev, st, mt),
                build_safe_output(text),
                _build_evidence_guided_plan(text, ev))

----------------------------------------------------------------------------
(* app/streamlit_app.py: the audit fix applied to the output before display *)

\* tokens of _extract_missing_from_text, as whole values of a field
UnknownTokens == {"unknown", "n/a", "na", "none", "null", "pending", "tbd"}

\* re.search(r"(<labels>)\s*[:=]\s*(unknown|n\/a|...)\b", lower-cased chart)
UnknownIn(fs, labels) ==
    \E i \in 1..Len(fs) : /\ Lower(fs[i].label) \in labels
                           /\ fs[i].sep \in {":", "="}
                           /\ fs[i].kind = "word"
                           /\ Lower(fs[i].word) \in UnknownTokens
UnknownLabs(fs) ==
    (IF UnknownIn(fs, {"qtc", "qt c", "qt interval"}) THEN <<LabelQTc>> ELSE <<>>)
    \o (IF UnknownIn(fs, {"potassium", "k"}) THEN <<LabelK>> ELSE <<>>)
    \o (IF UnknownIn(fs, {"magnesium", "mg"}) THEN <<LabelMg>> ELSE <<>>)
_extract_missing_from_text(text) == UnknownLabs(ChartFields(text))

\* the lower-cased sentence of an action item around the phrase "missing key
\* inputs": whether it has the phrase, the text that follows it up to the
\* list, and the list.  Only the sentence of rag_pipeline.py line 200 has
\* the phrase: "...: missing key inputs. required inputs: <list>."
Phrase(item) ==
    IF item.kind = "missing_key_inputs"
    THEN [present |-> TRUE, follows |-> ". required inputs: ", list |-> item.inputs]
    ELSE [present |-> FALSE, follows |-> "", list |-> <<>>]

\* re.search(r"missing key inputs\s*:\s*([a-z0-9,\-\s\(\)]+)", plan_text): the
\* phrase must be followed by optional blanks and a colon; group(1) split on ","
RECURSIVE PhraseTokens(_)
PhraseTokens(ap) ==
    IF ap = <<>> THEN <<>>
    ELSE IF Phrase(Head(ap)).present /\ Phrase(Head(ap)).follows \in {":", ": ", " : ", " :"}
    THEN Phrase(Head(ap)).list
    ELSE PhraseTokens(Tail(ap))

\* "qtc" in token / "potassium" in token or token == "k" / "magnesium" in
\* token or token == "mg", on the lower-cased labels the sentence can list
TokenLabs(token) ==
    CASE token = LabelQTc -> {LabelQTc}
      [] token = LabelK -> {LabelK}
      [] token = LabelMg -> {LabelMg}
      [] OTHER -> {}
PlanLabs(ap) ==
    IF \E i \in 1..Len(ap) : Phrase(ap[i]).present
    THEN UNION {TokenLabs(PhraseTokens(ap)[j]) : j \in 1..Len(PhraseTokens(ap))}
    ELSE {}

\* sorted(missing_set): Python string order of the labels
StrOrder == <<LabelMg, LabelMeds, LabelK, LabelQTc>>
Sorted(S) == SelectSeq(StrOrder, LAMBDA l : l \in S)

\* re.search(r"(?i)\bmeds?\s*:\s*(.+)", chart): the first Meds label anywhere
\* in the text; group(1) is the rest of its line (under 160 characters for
\* the charts of the model, so meds_short is meds)
RECURSIVE RestOfLineFromMeds(_)
RestOfLineFromMeds(line) ==
    IF line = <<>> THEN <<>>
    ELSE IF Lower(Head(line).label) \in {"med", "meds"} /\ Head(line).sep = ":"
    THEN BlobItems(line)
    ELSE RestOfLineFromMeds(Tail(line))
RECURSIVE MedsText(_)
MedsText(text) ==
    IF text = <<>> THEN <<>>
    ELSE IF RestOfLineFromMeds(Head(text)) # <<>> THEN RestOfLineFromMeds(Head(text))
    ELSE MedsText(Tail(text))

\* "QT risk cannot be fully assessed without QTc. [Medications listed
\* include: <meds>.] Obtain ECG/QTc to complete risk assessment."
QtcSummary(text) == Summary("cannot_assess_without_qtc", MedsText(text))

GuardrailsMissingNote(missing) ==
    [kind |-> "guardrails_missing", text |-> "Guardrails: missing required inputs:",
     nums |-> <<>>, strs |-> missing, flag |-> FALSE]
GuardrailsPassedNote == TextNote("Guardrails check passed for required inputs (QTc, K, Mg).")

\* lines 145-151: notes with "Guardrails check passed" are removed, then the
\* guardrail note is inserted at index 0
FixNotes(notes, missing) ==
    <<IF missing # <<>> THEN GuardrailsMissingNote(missing) ELSE GuardrailsPassedNote>>
    \o SelectSeq(notes, LAMBDA n : n.text # GuardrailsPassedNote.text)

FixWith(out_dict, text, missing) ==
    [out_dict EXCEPT
        !.risk_summary = IF LabelQTc \in SeqSet(missing) THEN QtcSummary(text) ELSE @,
        !.audit_view = [missing_data |-> missing,
                        notes |-> FixNotes(out_dict.audit_view.notes, missing)]]

_audit_fix_missing(out_dict, text) ==
    FixWith(out_dict, text,
            Sorted(SeqSet(out_dict.audit_view.missing_data)
                   \cup PlanLabs(out_dict.action_plan)
                   \cup SeqSet(_extract_missing_from_text(text))))

----------------------------------------------------------------------------
(* eval_harness.py, scripts/eval.py: deferral detection on an output *)

\* the sentence of the action item begins with "Safe deferral:"
\* (rag_pipeline.py lines 200 and 284)
BeginsSafeDeferral(item) ==
    item.kind \in {"missing_key_inputs", "safe_deferral_confirm_inputs"}

\* which of the phrases "safe deferral", "missing key inputs" the normalised
\* (blank-collapsed, lower-cased) sentence of an action item contains
ItemPhrases(item) ==
    CASE item.kind = "missing_key_inputs" -> {"safe deferral", "missing key inputs"}
      [] item.kind = "safe_deferral_confirm_inputs" -> {"safe deferral"}
      [] OTHER -> {}

\* the same for a risk summary: only "Evidence confidence is low for this
\* query. Safe deferral recommended until ..." has one
SummaryPhrases(summary) ==
    IF summary.kind = "evidence_confidence_low" THEN {"safe deferral"} ELSE {}

PlanPhrases(ap) == UNION {ItemPhrases(ap[i]) : i \in 1..Len(ap)}

is_deferral(output, weak_flag) ==
    \/ weak_flag
    \/ "safe deferral" \in SummaryPhrases(output.risk_summary)
    \/ "safe deferral" \in PlanPhrases(output.action_plan)
    \/ "missing key inputs" \in PlanPhrases(output.action_plan)

----------------------------------------------------------------------------
(* prompts.py, inference.py: the generative producer *)

\* build_prompt(mini_chart): the template with the chart and no evidence block
build_prompt(text) == [template |-> "qtguard_prompt", chart |-> text, evidence_block |-> ""]

StrictInstruction == "IMPORTANT: Output MUST be valid JSON only. No markdown. No commentary."

\* the strict instruction is added on the first attempt too
PromptFor_StrictAlways(base_prompt, attempt) ==
    [base |-> base_prompt, suffix |-> StrictInstruction]

\* lines 88-93: the prompt of an attempt (attempts count from 0)
PromptFor(base_prompt, attempt) ==
    [base |-> base_prompt, suffix |-> IF attempt > 0 THEN StrictInstruction ELSE ""]

\* A decoded text is a sequence of pieces: "{", "}", prose, and the bodies
\* "full" (every field of the schema), "partial" (JSON that lacks required
\* fields) and "broken" (not JSON).
\* text.find / text.rfind, 0 for -1
Find(text, piece) ==
    IF \A i \in 1..Len(text) : text[i] # piece THEN 0
    ELSE Minimum({i \in 1..Len(text) : text[i] = piece})
RFind(text, piece) ==
    IF \A i \in 1..Len(text) : text[i] # piece THEN 0
    ELSE CHOOSE i \in 1..Len(text) :
           text[i] = piece /\ \A j \in (i + 1)..Len(text) : text[j] # piece

Ok(v) == [ok |-> TRUE, value |-> v]
Err(e) == [ok |-> FALSE, value |-> e]

\* json.loads(candidate): one object and nothing else
JsonLoads(candidate) ==
    IF Len(candidate) = 3 /\ candidate[1] = "{" /\ candidate[3] = "}"
       /\ candidate[2] \in {"full", "partial"}
    THEN Ok(candidate[2])
    ELSE Err("JSONDecodeError")

_extract_json(text) ==
    IF Find(text, "{") = 0 \/ RFind(text, "}") = 0 \/ RFind(text, "}") <= Find(text, "{")
    THEN Err("ValueError")
    ELSE JsonLoads(SubSeq(text, Find(text, "{"), RFind(text, "}")))

\* QTGuardOutput.model_validate(data)
model_validate(data) ==
    IF data = "full" THEN Ok([validated |-> data]) ELSE Err("ValidationError")

\* lines 129-135: the try block
TryParse(text) ==
    IF _extract_json(text).ok THEN model_validate(_extract_json(text).value)
    ELSE _extract_json(text)

----------------------------------------------------------------------------
(* Inputs *)

MaxCandidateK == 3
MaxTopK == 3
MaxTopN == 2
MaxCalls == 2
MaxThreads == 3
MaxRetries == 2
DefaultRetries == 2
Threads == 1..MaxThreads
DefaultScoreThreshold == 0
DefaultMarginThreshold == 20
DefaultTopN == 5

QtcOpts == {<<>>,
            <<NumField("QTc", "=", 5600)>>,
            <<NumField("QTc", "=", 4999)>>,
            <<NumField("QTc", ":", 4800)>>,
            <<WordField("QTc", ":", "unknown")>>}
KOpts == {<<>>,
          <<NumField("K", "=", 29)>>,
          <<NumField("K", "=", 40)>>,
          <<BadField("K", "=")>>,
          <<WordField("Potassium", ":", "pending")>>}
MgOpts == {<<>>,
           <<NumField("Mg", "=", 12)>>,
           <<NumField("Mg", "=", 20)>>,
           <<WordField("Mg", ":", "n/a")>>}
MedsOpts == {<<>>,
             <<MedsField("Meds", ":", <<Med("haloperidol", FALSE), Med("azithromycin", FALSE)>>)>>,
             <<MedsField("Meds", ":", <<Med("ondansetron only", FALSE)>>)>>,
             <<MedsField("Meds", ":", <<Med("unknown", FALSE)>>)>>}
Layouts == {"one_line", "meds_on_own_line", "meds_first"}

\* the text of a chart: its non-empty lines
Lines(ls) == SelectSeq(ls, LAMBDA l : l # <<>>)
Chart(q, k, m, md, layout) ==
    CASE layout = "one_line" -> Lines(<<q \o k \o m \o md>>)
      [] layout = "meds_on_own_line" -> Lines(<<q \o k \o m, md>>)
      [] layout = "meds_first" -> Lines(<<md \o q \o k \o m>>)

Charts == {Chart(q, k, m, md, l) :
             q \in QtcOpts, k \in KOpts, m \in MgOpts, md \in MedsOpts, l \in Layouts}

\* "QTc=560; K=2.9; Mg=1.2; Meds: haloperidol, azithromycin"
ChartScenarioOneLine ==
    <<<<NumField("QTc", "=", 5600), NumField("K", "=", 29), NumField("Mg", "=", 12),
        MedsField("Meds", ":", <<Med("haloperidol", FALSE), Med("azithromycin", FALSE)>>)>>>>
\* the same fields with the Meds label on a line of its own
ChartScenarioTwoLines ==
    <<<<NumField("QTc", "=", 5600), NumField("K", "=", 29), NumField("Mg", "=", 12)>>,
      <<MedsField("Meds", ":", <<Med("haloperidol", FALSE), Med("azithromycin", FALSE)>>)>>>>
\* "Meds: ondansetron only"
ChartMedsOnly ==
    <<<<MedsField("Meds", ":", <<Med("ondansetron only", FALSE)>>)>>>>
\* "QTc=480; K=4.0; Mg=2.0; HR=55; near syncope" / "Meds: ondansetron PRN nausea"
ChartSymptoms ==
    <<<<NumField("QTc", "=", 4800), NumField("K", "=", 40), NumField("Mg", "=", 20),
        NumField("HR", "=", 550), WordField("note", "", "near syncope")>>,
      <<MedsField("Meds", ":", <<Med("ondansetron", TRUE)>>)>>>>

\* "QTc=480; K=4.0; Mg=2.0; HR=55" / "Meds: ondansetron PRN nausea"
ChartBrady ==
    <<<<NumField("QTc", "=", 4800), NumField("K", "=", 40), NumField("Mg", "=", 20),
        NumField("HR", "=", 550)>>,
      <<MedsField("Meds", ":", <<Med("ondansetron", TRUE)>>)>>>>
\* "QTc=480; K=4.0; Mg=2.0; HR=72; palpitations" / "Meds: ondansetron"
ChartPalpitations ==
    <<<<NumField("QTc", "=", 4800), NumField("K", "=", 40), NumField("Mg", "=", 20),
        NumField("HR", "=", 720), WordField("note", "", "palpitations")>>,
      <<MedsField("Meds", ":", <<Med("ondansetron", FALSE)>>)>>>>
\* "QTc=480; K=4.0; Mg=2.0; CHF" / "Meds: ondansetron"
ChartCHF ==
    <<<<NumField("QTc", "=", 4800), NumField("K", "=", 40), NumField("Mg", "=", 20),
        WordField("note", "", "CHF")>>,
      <<MedsField("Meds", ":", <<Med("ondansetron", FALSE)>>)>>>>
SymptomCharts == {ChartSymptoms, ChartBrady, ChartPalpitations, ChartCHF}

Row(cid, text) == [title |-> "Guideline", section |-> "Monitoring", chunk_id |-> cid, text |-> text]
RowNoId(text) == [title |-> "Guideline", section |-> "Monitoring", text |-> text]
RowTitled(title, cid, text) == [title |-> title, section |-> "Overview", chunk_id |-> cid, text |-> text]

Corpora ==
    {<<Row("c1", "Telemetry monitoring")>>,
     <<Row("c1", "Telemetry monitoring"), Row("c2", "electrolytes")>>,
     <<Row("c1", "electrolytes"), Row("c1", "electrolytes")>>,
     <<RowNoId("electrolytes"), RowNoId("Telemetry monitoring")>>,
     <<Row("c1", "Telemetry monitoring"), Row("c2", "electrolytes"), Row("c1", "electrolytes")>>,
     <<Row("c1", "electrolytes"), RowNoId("electrolytes"), RowNoId("electrolytes")>>}

\* what the model can answer, as decoded text
Decodings ==
    {<<"{", "full", "}">>,
     <<"prose", "{", "full", "}", "prose">>,
     <<"prose">>,
     <<"}", "prose", "{">>,
     <<"{", "broken", "}">>,
     <<"{", "partial", "}">>,
     <<"{", "full", "}", "{", "full", "}">>}

\* generate_qtguard_output entered with the given retries, before the loop
GenStart(retries) ==
    [retries |-> retries, attempt |-> 0, pc |-> "loop", prompts |-> <<>>,
     decoded |-> <<>>, last_error |-> None, result |-> None]

Orders(n) ==
    {p \in [1..n -> 1..n] : \A i, j \in 1..n : i # j => p[i] # p[j]}
Reverse(s) == [i \in 1..Len(s) |-> s[Len(s) + 1 - i]]

RankScores == {-20, 30, 60}
GateScores == {-20, 10, 29, 30, 60, 1000}
ScoreThresholds == {0, 50, 100}
MarginThresholds == {0, 20, 1000}

InitPipeline(chart, st, mt, tn, R, ck, tk, bm, vc, sc) ==
    /\ mini_chart = chart
    /\ score_threshold = st
    /\ margin_threshold = mt
    /\ top_n_notes = tn
    /\ rows = R
    /\ candidate_k = ck
    /\ top_k = tk
    /\ bm25_order = bm
    /\ vec_order = vc
    /\ rr = sc
    /\ pc = "start"
    /\ query = <<>>
    /\ evidence = <<>>
    /\ plan = <<>>
    /\ out = <<>>
    /\ weak_for_eval = FALSE
    /\ results = <<>>
    /\ cache = None
    /\ constructions = 0
    /\ tpc = [t \in Threads |-> "idle"]
    /\ tgot = [t \in Threads |-> 0]

InitFields(chart, st, mt, tn, R, ck, tk, bm, vc, sc) ==
    /\ InitPipeline(chart, st, mt, tn, R, ck, tk, bm, vc, sc)
    /\ gen = GenStart(DefaultRetries)

\* every chart, against strong, weak (crowded) and absent evidence
InitCharts ==
    \E chart \in Charts \cup SymptomCharts :
    \E sc \in {<<1000, 10>>, <<30, 29>>} :
    \E ck \in {0, 2} :
        InitFields(chart, DefaultScoreThreshold, DefaultMarginThreshold, DefaultTopN,
                   <<Row("c1", "electrolytes"), Row("c2", "electrolytes")>>,
                   ck, 2, <<1, 2>>, <<2, 1>>, sc)

\* every pair of thresholds, against one- and two-item evidence lists
InitGate ==
    \E chart \in {ChartScenarioOneLine, ChartScenarioTwoLines, ChartMedsOnly, ChartSymptoms} :
    \E st \in ScoreThresholds, mt \in MarginThresholds, tn \in 0..MaxTopN :
    \E s1 \in GateScores, s2 \in GateScores, tk \in 1..2 :
        /\ s1 >= s2
        /\ InitFields(chart, st, mt, tn,
                      <<Row("c1", "Telemetry monitoring"),
                        RowTitled("MedGemma model card", "c2", "electrolytes")>>,
                      2, tk, <<1, 2>>, <<2, 1>>, <<s1, s2>>)

\* every corpus, candidate order, reranker score and retriever configuration
InitRetrieval ==
    \E R \in Corpora :
    \E bm \in Orders(Len(R)), rev \in BOOLEAN :
    \E sc \in [1..Len(R) -> RankScores] :
    \E ck \in 0..MaxCandidateK, tk \in 0..MaxTopK :
        InitFields(ChartScenarioTwoLines, DefaultScoreThreshold, DefaultMarginThreshold,
                   DefaultTopN, R, ck, tk, bm, IF rev THEN Reverse(bm) ELSE bm, sc)

Init == InitCharts \/ InitGate \/ InitRetrieval

----------------------------------------------------------------------------
(* Operations *)

\* run_qtguard_with_retrieval, lines 261-263: retriever = get_retriever() (built
\* on the first call, taken from the cache afterwards), query, evidence =
\* retriever.search(query)
Search ==
    /\ pc = "start"
    /\ cache' = IF cache = None THEN Some(constructions + 1) ELSE cache
    /\ constructions' = IF cache = None THEN constructions + 1 ELSE constructions
    /\ query' = _build_retrieval_query(mini_chart)
    /\ evidence' = search(rows, candidate_k, top_k, bm25_order, vec_order, rr)
    /\ pc' = "searched"
    /\ UNCHANGED <<mini_chart, score_threshold, margin_threshold, top_n_notes, rows,
                   candidate_k, top_k, bm25_order, vec_order, rr, plan, out,
                   weak_for_eval, results, tpc, tgot,
                   gen>>

Return(r) ==
    /\ out' = r.base
    /\ weak_for_eval' = r.weak_for_eval
    /\ plan' = r.plan
    /\ results' = Append(results, [out |-> r.base, weak |-> r.weak_for_eval])

\* run_qtguard_with_retrieval, lines 265-305: gate, baseline, plan, notes, return
Compose ==
    /\ pc = "searched"
    /\ Return(compose(mini_chart, query, evidence, score_threshold, margin_threshold,
                      top_n_notes))
    /\ pc' = "returned"
    /\ UNCHANGED <<mini_chart, score_threshold, margin_threshold, top_n_notes, rows,
                   candidate_k, top_k, bm25_order, vec_order, rr, query, evidence,
                   cache, constructions, tpc, tgot,
                   gen>>

\* Generate-plan handler, line 246: out_dict = _audit_fix_missing(out_dict, chart)
AuditFix ==
    /\ pc = "returned"
    /\ out' = _audit_fix_missing(out, mini_chart)
    /\ pc' = "fixed"
    /\ UNCHANGED <<mini_chart, score_threshold, margin_threshold, top_n_notes, rows,
                   candidate_k, top_k, bm25_order, vec_order, rr, query, evidence,
                   plan, weak_for_eval, results, cache, constructions, tpc, tgot,
                   gen>>

\* _audit_fix_missing applied to its own result
AuditFixAgain ==
    /\ pc = "fixed"
    /\ out' = _audit_fix_missing(out, mini_chart)
    /\ pc' = "refixed"
    /\ UNCHANGED <<mini_chart, score_threshold, margin_threshold, top_n_notes, rows,
                   candidate_k, top_k, bm25_order, vec_order, rr, query, evidence,
                   plan, weak_for_eval, results, cache, constructions, tpc, tgot,
                   gen>>

\* the caller asks again with the same mini-chart and settings
CallAgain ==
    /\ pc \in {"returned", "fixed"}
    /\ Len(results) < MaxCalls
    /\ pc' = "start"
    /\ UNCHANGED <<mini_chart, score_threshold, margin_threshold, top_n_notes, rows,
                   candidate_k, top_k, bm25_order, vec_order, rr, query, evidence,
                   plan, out, weak_for_eval, results, cache, constructions, tpc, tgot,
                   gen>>

Next == Search \/ Compose \/ AuditFix \/ AuditFixAgain \/ CallAgain

Spec == Init /\ [][Next]_vars

----------------------------------------------------------------------------
(* get_retriever() called from several threads (one per browser session) *)

\* lru_cache wrapper: the key is looked up; a hit returns the cached instance,
\* a miss goes on to call the wrapped function, with no lock held
Lookup(t) ==
    /\ tpc[t] = "idle"
    /\ IF cache # None
       THEN /\ tgot' = [tgot EXCEPT ![t] = cache[1]]
            /\ tpc' = [tpc EXCEPT ![t] = "done"]
       ELSE /\ tpc' = [tpc EXCEPT ![t] = "building"]
            /\ UNCHANGED tgot
    /\ UNCHANGED <<mini_chart, score_threshold, margin_threshold, top_n_notes, rows,
                   candidate_k, top_k, bm25_order, vec_order, rr, pc, query, evidence,
                   plan, out, weak_for_eval, results, cache, constructions,
                   gen>>

\* the wrapped function: HybridRetriever() loads the corpus and builds the indices
Build(t) ==
    /\ tpc[t] = "building"
    /\ constructions' = constructions + 1
    /\ tgot' = [tgot EXCEPT ![t] = constructions + 1]
    /\ tpc' = [tpc EXCEPT ![t] = "built"]
    /\ UNCHANGED <<mini_chart, score_threshold, margin_threshold, top_n_notes, rows,
                   candidate_k, top_k, bm25_order, vec_order, rr, pc, query, evidence,
                   plan, out, weak_for_eval, results, cache,
                   gen>>

\* lru_cache wrapper after the call: the result is stored unless the key was
\* added meanwhile; either way the caller gets the result it computed
Store(t) ==
    /\ tpc[t] = "built"
    /\ cache' = IF cache = None THEN Some(tgot[t]) ELSE cache
    /\ tpc' = [tpc EXCEPT ![t] = "done"]
    /\ UNCHANGED <<mini_chart, score_threshold, margin_threshold, top_n_notes, rows,
                   candidate_k, top_k, bm25_order, vec_order, rr, pc, query, evidence,
                   plan, out, weak_for_eval, results, constructions, tgot,
                   gen>>

InitThreads ==
    InitFields(ChartScenarioTwoLines, DefaultScoreThreshold, DefaultMarginThreshold,
               DefaultTopN, <<Row("c1", "Telemetry monitoring")>>, 1, 1, <<1>>, <<1>>,
               <<60>>)

NextThreads == \E t \in Threads : Lookup(t) \/ Build(t) \/ Store(t)

SpecThreads == InitThreads /\ [][NextThreads]_vars

----------------------------------------------------------------------------
(* generate_qtguard_output(mini_chart, retries) *)

\* lines 87-127: one more attempt of range(retries + 1): the prompt is built
\* and sent, the model's answer is decoded
Generate ==
    /\ gen.pc = "loop"
    /\ gen.attempt <= gen.retries
    /\ \E text \in Decodings :
          gen' = [gen EXCEPT
                    !.prompts = Append(@, PromptFor(build_prompt(mini_chart), gen.attempt)),
                    !.decoded = Append(@, text),
                    !.pc = "decoded"]
    /\ UNCHANGED <<mini_chart, score_threshold, margin_threshold, top_n_notes, rows,
                   candidate_k, top_k, bm25_order, vec_order, rr, pc, query, evidence,
                   plan, out, weak_for_eval, results, cache, constructions, tpc, tgot>>

\* lines 129-135: return the validated output, or keep the error and continue
Parse ==
    /\ gen.pc = "decoded"
    /\ gen' = IF TryParse(gen.decoded[Len(gen.decoded)]).ok
              THEN [gen EXCEPT !.result = Some(TryParse(gen.decoded[Len(gen.decoded)]).value),
                               !.pc = "returned"]
              ELSE [gen EXCEPT !.last_error = Some(TryParse(gen.decoded[Len(gen.decoded)]).value),
                               !.attempt = @ + 1, !.pc = "loop"]
    /\ UNCHANGED <<mini_chart, score_threshold, margin_threshold, top_n_notes, rows,
                   candidate_k, top_k, bm25_order, vec_order, rr, pc, query, evidence,
                   plan, out, weak_for_eval, results, cache, constructions, tpc, tgot>>

\* line 137: the loop is exhausted
RaiseRuntimeError ==
    /\ gen.pc = "loop"
    /\ gen.attempt > gen.retries
    /\ gen' = [gen EXCEPT !.pc = "raised"]
    /\ UNCHANGED <<mini_chart, score_threshold, margin_threshold, top_n_notes, rows,
                   candidate_k, top_k, bm25_order, vec_order, rr, pc, query, evidence,
                   plan, out, weak_for_eval, results, cache, constructions, tpc, tgot>>

InitGenerate ==
    \E chart \in {ChartScenarioOneLine, ChartMedsOnly} :
    \E retries \in 0..MaxRetries :
        /\ InitPipeline(chart, DefaultScoreThreshold, DefaultMarginThreshold, DefaultTopN,
                        <<Row("c1", "Telemetry monitoring")>>, 1, 1, <<1>>, <<1>>, <<60>>)
        /\ gen = GenStart(retries)

NextGenerate == Generate \/ Parse \/ RaiseRuntimeError

SpecGenerate == InitGenerate /\ [][NextGenerate]_vars

----------------------------------------------------------------------------
(* Properties *)

Gate == _is_evidence_weak(evidence, score_threshold, margin_threshold)

RequiredOrder == <<LabelQTc, LabelK, LabelMg, LabelMeds>>

\* the required field was not extracted from the mini-chart
NotExtracted(label) ==
    CASE label = LabelQTc -> _extract_int({"qtc"}, mini_chart) = None
      [] label = LabelK -> _extract_float({"k"}, mini_chart) = None
      [] label = LabelMg -> _extract_float({"mg"}, mini_chart) = None
      [] label = LabelMeds -> Len(_extract_meds(mini_chart)) = 0

SomeRequiredMissing == \E i \in 1..Len(RequiredOrder) : NotExtracted(RequiredOrder[i])

Scores(ev) == [i \in 1..Len(ev) |-> ev[i].score]

\* C1: the returned effective_weak is (gate weak) OR (some required field of
\* QTc, K, Mg, medication list was not extracted): true whenever a field is
\* missing even under a strong gate, false only when the gate is strong and
\* all four fields were extracted.
C1_EffectiveWeak ==
    pc = "returned" => (weak_for_eval <=> (Gate.weak \/ SomeRequiredMissing))

C1_Witness ==
    /\ pc = "returned"
    /\ ~Gate.weak
    /\ SomeRequiredMissing
    /\ weak_for_eval

\* C2: with two or more items, top_score is the first score, margin is first
\* minus second, and weak is (top < score_threshold) when top >= 0.5, but
\* (top < score_threshold OR margin < margin_threshold) when top < 0.5, for
\* every pair of thresholds; [0.6, 0.1] at (0.0, 10.0) is strong and
\* [0.3, 0.29] at (0.0, 10.0) is weak.
C2_GateTwoOrMore ==
    Len(evidence) >= 2 =>
        /\ \A st \in ScoreThresholds, mt \in MarginThresholds :
              LET g == _is_evidence_weak(evidence, st, mt)
                  top == evidence[1].score
                  m == evidence[1].score - evidence[2].score
              IN /\ g.top_score = Fin(top)
                 /\ g.margin = Fin(m)
                 /\ g.weak <=> IF top >= 50 THEN top < st ELSE (top < st \/ m < mt)
        /\ Scores(evidence) = <<60, 10>> => ~_is_evidence_weak(evidence, 0, 1000).weak
        /\ Scores(evidence) = <<30, 29>> => _is_evidence_weak(evidence, 0, 1000).weak

C2_Witness ==
    /\ pc = "returned"
    /\ Scores(evidence) = <<60, 10>>
    /\ score_threshold = 0
    /\ margin_threshold = 1000
    /\ \E i \in 1..Len(out.audit_view.notes) :
          /\ out.audit_view.notes[i].kind = "diagnostics"
          /\ out.audit_view.notes[i].nums[2] = Fin(50)
    /\ ~Gate.weak

\* C3: for an empty evidence list the gate returns weak = true,
\* top_score = -infinity and margin = 0 for every pair of thresholds, and the
\* composer then returns effective_weak = true.
C3_GateEmpty ==
    evidence = <<>> =>
        /\ \A st \in ScoreThresholds, mt \in MarginThresholds :
              _is_evidence_weak(evidence, st, mt)
                  = [weak |-> TRUE, top_score |-> NegInf, margin |-> Fin(0)]
        /\ pc = "returned" => weak_for_eval

C3_Witness ==
    /\ pc = "returned"
    /\ evidence = <<>>
    /\ ~SomeRequiredMissing
    /\ weak_for_eval

\* C4: with exactly one item the margin is +infinity and never triggers
\* weakness: weak is (score < score_threshold) for every margin_threshold in
\* both score regimes; score 10.0 at score_threshold 0.0 is strong for every
\* margin_threshold.
C4_GateSingle ==
    Len(evidence) = 1 =>
        /\ \A st \in ScoreThresholds, mt \in MarginThresholds :
              LET g == _is_evidence_weak(evidence, st, mt)
              IN /\ g.margin = PosInf
                 /\ g.weak <=> evidence[1].score < st
        /\ evidence[1].score = 1000 =>
              \A mt \in MarginThresholds : ~_is_evidence_weak(evidence, 0, mt).weak

C4_Witness ==
    /\ pc = "returned"
    /\ Len(evidence) = 1
    /\ evidence[1].score < 50
    /\ evidence[1].score >= score_threshold
    /\ margin_threshold = 1000
    /\ ~Gate.weak
    /\ ~weak_for_eval

\* the summaries that ask for inputs instead of stating a risk
DeferralSummaries ==
    {"evidence_confidence_low", "insufficient_information", "signals_not_derived"}

\* C5 (as claimed): when the gate says strong but a required field is
\* missing, the returned risk_summary is deferral language and is not the
\* risk narrative "Higher QT/TdP risk signals present: ...".
C5_Claim ==
    (pc = "returned" /\ ~Gate.weak /\ SomeRequiredMissing) =>
        /\ out.risk_summary.kind \in DeferralSummaries
        /\ out.risk_summary.kind # "higher_risk_signals_present"

\* C6: under a strong gate, when a required field is missing the first
\* action_plan item is the "Missing key inputs. Required inputs: <list>"
\* sentence listing exactly the fields not extracted, in the order QTc,
\* Potassium (K), Magnesium (Mg), Medication list; when none is missing no
\* item of the plan is that sentence.
C6_DeferralItem ==
    (pc = "returned" /\ ~Gate.weak) =>
        IF SomeRequiredMissing
        THEN /\ Len(out.action_plan) >= 1
             /\ out.action_plan[1].kind = "missing_key_inputs"
             /\ out.action_plan[1].inputs = SelectSeq(RequiredOrder, NotExtracted)
        ELSE \A i \in 1..Len(out.action_plan) :
                out.action_plan[i].kind # "missing_key_inputs"

C6_Witness ==
    /\ pc = "returned"
    /\ ~Gate.weak
    /\ out.action_plan[1] = Item("missing_key_inputs", <<LabelK, LabelMeds>>)

FlagNames(summary) == {summary.flags[i].name : i \in 1..Len(summary.flags)}
PlanKinds(ap) == {ap[i].kind : i \in 1..Len(ap)}

\* C7 (as claimed): for the one-line chart "QTc=560; K=2.9; Mg=1.2; Meds:
\* haloperidol, azithromycin" with strong evidence, two medications are
\* extracted, effective_weak is false, the risk summary carries the QTc, K
\* and Mg flags and "2 meds listed", and the plan has an electrolyte step, a
\* telemetry/repeat-ECG step and no "Missing key inputs" item.
C7_Claim ==
    (pc = "returned" /\ mini_chart = ChartScenarioOneLine /\ ~Gate.weak) =>
        /\ Len(_extract_meds(mini_chart)) = 2
        /\ ~weak_for_eval
        /\ out.risk_summary.kind = "higher_risk_signals_present"
        /\ {"QTc", "K", "Mg"} \subseteq FlagNames(out.risk_summary)
        /\ Flag("meds listed", 2) \in SeqSet(out.risk_summary.flags)
        /\ "correct_electrolytes_first" \in PlanKinds(out.action_plan)
        /\ "repeat_ecg_consider_telemetry" \in PlanKinds(out.action_plan)
        /\ "missing_key_inputs" \notin PlanKinds(out.action_plan)

\* the chart names none of QTc, potassium, magnesium
MentionsNoLab(chart) ==
    \A i \in 1..Len(ChartFields(chart)) :
        Lower(ChartFields(chart)[i].label)
            \notin {"qtc", "qt c", "qt interval", "k", "potassium", "mg", "magnesium"}

\* C8: for a mini-chart that mentions none of QTc, potassium, magnesium, the
\* returned audit_view.missing_data is exactly {QTc, Potassium (K),
\* Magnesium (Mg)}, whether the gate is weak or strong.
C8_MissingAllLabs ==
    (pc = "returned" /\ MentionsNoLab(mini_chart)) =>
        /\ SeqSet(out.audit_view.missing_data) = {LabelQTc, LabelK, LabelMg}
        /\ Len(out.audit_view.missing_data) = 3

C8_Witness ==
    /\ pc = "returned"
    /\ mini_chart = ChartMedsOnly
    /\ ~Gate.weak
    /\ out.audit_view.missing_data = <<LabelQTc, LabelK, LabelMg>>

PlaceholderWords == {"unknown", "pending", "n/a"}

\* the chart gives the lab an explicit placeholder value
HasPlaceholder(chart, labels) ==
    \E i \in 1..Len(ChartFields(chart)) :
        /\ Lower(ChartFields(chart)[i].label) \in labels
        /\ ChartFields(chart)[i].kind = "word"
        /\ Lower(ChartFields(chart)[i].word) \in PlaceholderWords

\* C9 (as claimed): a required lab given with a placeholder value ("QTc:
\* unknown", "Potassium: pending", "Mg: n/a") is marked missing in the
\* returned audit_view.missing_data.
C9_Claim ==
    pc = "returned" =>
        /\ HasPlaceholder(mini_chart, {"qtc"})
              => LabelQTc \in SeqSet(out.audit_view.missing_data)
        /\ HasPlaceholder(mini_chart, {"k", "potassium"})
              => LabelK \in SeqSet(out.audit_view.missing_data)
        /\ HasPlaceholder(mini_chart, {"mg", "magnesium"})
              => LabelMg \in SeqSet(out.audit_view.missing_data)

\* C10 (as claimed): no two items returned by search have the same chunk_id.
C10_Claim ==
    \A i, j \in 1..Len(evidence) :
        i # j => evidence[i].chunk_id # evidence[j].chunk_id

\* C10 (amended): no two items returned by search have the same non-empty
\* chunk_id; rows without a chunk_id are returned with chunk_id "" and are
\* not deduplicated.
C10_UniqueNonEmptyIds ==
    \A i, j \in 1..Len(evidence) :
        (i # j /\ evidence[i].chunk_id = evidence[j].chunk_id)
            => evidence[i].chunk_id = ""

\* two candidate rows share a chunk_id and the later-ranked one was dropped
\* by the loop, not by top_k
C10_Witness ==
    /\ pc = "searched"
    /\ Len(rows) = 3
    /\ candidate_k >= 3
    /\ Len(evidence) = 2
    /\ top_k > 2
    /\ {evidence[1].chunk_id, evidence[2].chunk_id} = {"c1", "c2"}

\* C11 (as claimed): for every configured top_k >= 0, top_k = 0 included,
\* the list returned by search has at most top_k items.
C11_Claim ==
    pc # "start" => Len(evidence) <= top_k

C13_Claim ==
    /\ constructions <= 1
    /\ \A t, u \in Threads :
          (tpc[t] = "done" /\ tpc[u] = "done") => tgot[t] = tgot[u]

\* C14 (as claimed): after _audit_fix_missing is applied to an output whose
\* action plan has the "Safe deferral: Missing key inputs. Required inputs:
\* <list>." sentence, audit_view.missing_data contains every one of QTc,
\* Potassium (K), Magnesium (Mg) named in the list, so missing_data is not
\* empty and the "Guardrails check passed" note is absent while the plan
\* defers on a missing QTc, K or Mg.
C14_Claim ==
    pc = "fixed" =>
        \A i \in 1..Len(out.action_plan) :
            out.action_plan[i].kind = "missing_key_inputs" =>
                \A l \in {LabelQTc, LabelK, LabelMg} \cap SeqSet(out.action_plan[i].inputs) :
                    /\ l \in SeqSet(out.audit_view.missing_data)
                    /\ GuardrailsPassedNote \notin SeqSet(out.audit_view.notes)

\* the stated retrieval pipeline, written out step by step
RefSparse == SubSeq(bm25_order, 1, Min2(candidate_k, Len(bm25_order)))
RefDense == SubSeq(vec_order, 1, Min2(candidate_k, Len(vec_order)))
RefUnion ==
    SelectSeq(RefSparse \o SelectSeq(RefDense, LAMBDA i : i \notin SeqSet(RefSparse)),
              LAMBDA i : i \in 1..Len(rows))
\* position of the i-th candidate after a stable sort by score, descending
RefRank(c, i) ==
    1 + Cardinality({j \in 1..Len(c) : \/ rr[c[j]] > rr[c[i]]
                                       \/ (rr[c[j]] = rr[c[i]] /\ j < i)})
RefSorted(c) == [p \in 1..Len(c) |-> c[CHOOSE i \in 1..Len(c) : RefRank(c, i) = p]]
RefId(i) == Get(rows[i], "chunk_id", "")
\* every later occurrence of an already-seen chunk_id is dropped
RefFirsts(c) ==
    {p \in 1..Len(c) : \A q \in 1..(p - 1) : RefId(c[q]) # RefId(c[p])}
RECURSIVE RefKeep(_, _, _)
RefKeep(c, p, keep) ==
    IF p > Len(c) THEN <<>>
    ELSE (IF p \in keep THEN <<c[p]>> ELSE <<>>) \o RefKeep(c, p + 1, keep)
RefDeduped(c) == RefKeep(c, 1, RefFirsts(c))
RefTopK(c) == SubSeq(c, 1, Min2(top_k, Len(c)))
RefSearch ==
    [p \in 1..Len(RefTopK(RefDeduped(RefSorted(RefUnion)))) |->
        Evidence(Get(rows[RefTopK(RefDeduped(RefSorted(RefUnion)))[p]], "title", ""),
                 Get(rows[RefTopK(RefDeduped(RefSorted(RefUnion)))[p]], "section", ""),
                 RefId(RefTopK(RefDeduped(RefSorted(RefUnion)))[p]),
                 Get(rows[RefTopK(RefDeduped(RefSorted(RefUnion)))[p]], "text", ""),
                 rr[RefTopK(RefDeduped(RefSorted(RefUnion)))[p]])]

\* C15 (as claimed): search returns exactly: the order-preserving union of
\* the sparse candidates followed by the dense-only candidates (indices
\* outside the corpus dropped), sorted by reranker score descending with ties
\* in candidate order, every later occurrence of an already-seen chunk_id
\* dropped, the first top_k kept; hence the returned scores are
\* non-increasing by position.
C15_Claim ==
    pc # "start" =>
        /\ evidence = RefSearch
        /\ \A i \in 1..(Len(evidence) - 1) : evidence[i].score >= evidence[i + 1].score

Notes == out.audit_view.notes
NotesOfKind(kind) == {i \in 1..Len(Notes) : Notes[i].kind = kind}
\* the notes build_safe_output wrote for this mini-chart
BaselineNotes == build_safe_output(mini_chart).audit_view.notes
\* what the gate is given to report: first score, first minus second
TopScore == IF evidence = <<>> THEN NegInf ELSE Fin(evidence[1].score)
MarginOfEvidence ==
    IF evidence = <<>> THEN Fin(0)
    ELSE IF Len(evidence) = 1 THEN PosInf
    ELSE Fin(evidence[1].score - evidence[2].score)
IsEvidenceNote(n) ==
    \/ n.kind = "citation"
    \/ n.kind = "text" /\ n.text \in {"No evidence retrieved.", "Evidence retrieved (reranked):"}

\* C16: the notes of every output of run_qtguard_with_retrieval have exactly
\* one "Retrieval diagnostics:" note; it reports top_score, margin, both
\* thresholds and weak = the returned effective_weak (not the raw gate flag);
\* it is immediately followed by exactly one "Retrieval query:" note with the
\* exact string passed to search; both come after all retained baseline
\* notes and before all evidence notes.
C16_DiagnosticsAndQuery ==
    pc = "returned" =>
        /\ Cardinality(NotesOfKind("diagnostics")) = 1
        /\ Cardinality(NotesOfKind("query")) = 1
        /\ \A i \in NotesOfKind("diagnostics") :
              /\ Notes[i].nums = <<TopScore, MarginOfEvidence, Fin(score_threshold),
                                   Fin(margin_threshold)>>
              /\ Notes[i].flag = weak_for_eval
              /\ i + 1 \in NotesOfKind("query")
              /\ Notes[i + 1].strs = <<query>>
              /\ query = [anchor |-> AnchorTerms, chart |-> mini_chart]
              /\ \A j \in 1..(i - 1) : Notes[j] \in SeqSet(BaselineNotes)
              /\ \A j \in (i + 2)..Len(Notes) : IsEvidenceNote(Notes[j])
              /\ \A j \in 1..Len(Notes) : IsEvidenceNote(Notes[j]) => j > i + 1

C16_Witness ==
    /\ pc = "returned"
    /\ ~Gate.weak
    /\ weak_for_eval
    /\ Len(evidence) = 2
    /\ Notes[1] = TextNote("Guardrails check passed for required inputs (QTc, K, Mg).")
    /\ Notes[2].kind = "diagnostics"
    /\ Notes[2].flag
    /\ Notes[3].kind = "query"

\* C17: no note carried over from the baseline guardrail output into the
\* final notes contains an inference-backend noise substring; the filter
\* runs before any new note is appended (an appended note is kept even if it
\* contains such a substring); every other baseline note is kept unchanged
\* and in its original relative order.
C17_NoiseFiltered ==
    pc = "returned" =>
        \A i \in NotesOfKind("diagnostics") :
            /\ \A j \in 1..(i - 1) : NoiseOf(Notes[j]) = {}
            /\ SubSeq(Notes, 1, i - 1)
                  = SelectSeq(BaselineNotes, LAMBDA n : NoiseOf(n) = {})
            /\ Len(Notes) - i
                  = IF evidence = <<>> THEN 2
                    ELSE 2 + Min2(top_n_notes, Len(evidence))

C17_Witness ==
    /\ pc = "returned"
    /\ Len(BaselineNotes) = 2
    /\ NoiseOf(BaselineNotes[2]) = {"medgemma"}
    /\ Notes[1] = BaselineNotes[1]
    /\ Notes[2].kind = "diagnostics"
    /\ \E j \in NotesOfKind("citation") : NoiseOf(Notes[j]) = {"medgemma"}

\* C18: for every evidence list and every top_n_notes >= 0: if the list is
\* empty exactly one "No evidence retrieved." note and no citation note is
\* appended; otherwise exactly min(top_n_notes, len(evidence)) citation notes
\* are appended, the i-th tagged [Ei] with the title, section, score and
\* chunk_id of the i-th ranked evidence item, in ranked order.
C18_EvidenceNotes ==
    (pc = "returned" /\ top_n_notes >= 0) =>
        LET cites == SelectSeq(Notes, LAMBDA n : n.kind = "citation")
            none == SelectSeq(Notes, LAMBDA n : n.text = "No evidence retrieved.")
        IN IF evidence = <<>>
           THEN Len(none) = 1 /\ cites = <<>> /\ Notes[Len(Notes)] = none[1]
           ELSE /\ none = <<>>
                /\ Len(cites) = Min2(top_n_notes, Len(evidence))
                /\ SubSeq(Notes, Len(Notes) - Len(cites) + 1, Len(Notes)) = cites
                /\ \A i \in 1..Len(cites) :
                      /\ cites[i].nums = <<Fin(i), Fin(evidence[i].score)>>
                      /\ cites[i].strs = <<evidence[i].title, evidence[i].section,
                                           evidence[i].chunk_id>>

C18_Witness ==
    /\ pc = "returned"
    /\ top_n_notes = 1
    /\ Len(evidence) = 2
    /\ Cardinality(NotesOfKind("citation")) = 1
    /\ Notes[Len(Notes)].strs = <<"Guideline", "Monitoring", "c1">>

\* the telemetry condition, read off the mini-chart and the evidence
QtcOf == _extract_int({"qtc"}, mini_chart)
HrOf == _extract_int({"hr"}, mini_chart)
KOf == _extract_float({"k"}, mini_chart)
MgOf == _extract_float({"mg"}, mini_chart)
MedsOf == _extract_meds(mini_chart)
EvidenceMentionsTelemetry ==
    \E i \in 1..Len(evidence) : Substr("telemetry", Lower(evidence[i].text))
LowElectrolyteWithMeds ==
    /\ MedsOf # <<>>
    /\ (KOf # None /\ KOf[1] < 35) \/ (MgOf # None /\ MgOf[1] < 18)
TelemetryCondition ==
    \/ EvidenceMentionsTelemetry
    \/ QtcOf # None /\ QtcOf[1] >= 500
    \/ HrOf # None /\ HrOf[1] < 60
    \/ _has_symptom(mini_chart, {"syncope", "near syncope", "faint", "fainting"})
    \/ _has_symptom(mini_chart, {"palpitations", "torsades", "vtach", "ventricular", "seizure"})
    \/ _has_symptom(mini_chart, {"chf", "heart failure", "cardiomyopathy", "structural heart"})
    \/ Len(MedsOf) >= 2
    \/ LowElectrolyteWithMeds

\* C19: the last item of every plan built by _build_evidence_guided_plan is
\* the "consider telemetry" item if and only if (evidence text contains
\* "telemetry" OR QTc >= 500 OR HR < 60 OR a syncope-like, arrhythmia-like or
\* structural-heart-disease keyword OR two or more medications OR
\* (medications present AND (K < 3.5 OR Mg < 1.8))), and otherwise the
\* repeat-ECG-after-electrolytes item; the plan has exactly one of the two.
C19_LastItem ==
    plan # <<>> =>
        /\ Len(plan.ap) >= 1
        /\ plan.ap[Len(plan.ap)]
              = IF TelemetryCondition
                THEN Item("repeat_ecg_consider_telemetry", <<>>)
                ELSE Item("repeat_ecg_after_electrolytes", <<>>)
        /\ \A i \in 1..(Len(plan.ap) - 1) :
              plan.ap[i].kind \notin {"repeat_ecg_consider_telemetry",
                                      "repeat_ecg_after_electrolytes"}

C19_Witness ==
    /\ pc = "returned"
    /\ ~Gate.weak
    /\ LowElectrolyteWithMeds
    /\ ~EvidenceMentionsTelemetry
    /\ Len(MedsOf) = 1
    /\ QtcOf # None /\ QtcOf[1] < 500
    /\ out.action_plan[Len(out.action_plan)] = Item("repeat_ecg_consider_telemetry", <<>>)

IsPrefix(a, b) == Len(a) <= Len(b) /\ SubSeq(b, 1, Len(a)) = a

\* C20 (as claimed): once run_qtguard_with_retrieval has returned, every
\* later stage of producing the displayed output (the UI audit fix
\* _audit_fix_missing included) only appends to the audit notes: the previous
\* notes list is a prefix of the new one.
C20_Claim ==
    [][pc = "returned" => IsPrefix(out.audit_view.notes, out'.audit_view.notes)]_vars

\* C21: for every output of run_qtguard_with_retrieval, effective_weak is
\* true if and only if the first action_plan item begins with "Safe
\* deferral:"; an output returned with effective_weak = false has no "safe
\* deferral" or "missing key inputs" language in its risk_summary or
\* action_plan, so is_deferral(output, effective_weak) equals effective_weak.
C21_DeferralLanguage ==
    pc = "returned" =>
        /\ weak_for_eval <=>
              (Len(out.action_plan) >= 1 /\ BeginsSafeDeferral(out.action_plan[1]))
        /\ ~weak_for_eval =>
              /\ SummaryPhrases(out.risk_summary) = {}
              /\ PlanPhrases(out.action_plan) = {}
        /\ is_deferral(out, weak_for_eval) = weak_for_eval
        /\ is_deferral(out, FALSE) = weak_for_eval

C21_Witness ==
    /\ pc = "returned"
    /\ Gate.weak
    /\ ~SomeRequiredMissing
    /\ weak_for_eval
    /\ out.action_plan[1].kind = "safe_deferral_confirm_inputs"
    /\ Len(out.action_plan) = 5

\* C22 (as claimed): _audit_fix_missing is idempotent: applied to its own
\* result it leaves missing_data, risk_summary and the notes list as they
\* were (no second "Guardrails: missing required inputs" or "Guardrails
\* check passed" note).
C22_Claim ==
    [][pc = "fixed" =>
          /\ out'.audit_view.missing_data = out.audit_view.missing_data
          /\ out'.risk_summary = out.risk_summary
          /\ out'.audit_view.notes = out.audit_view.notes]_vars

\* The decoded texts that hold exactly one JSON object with every schema field
\* between their first "{" and their last "}".
AcceptedTexts == {<<"{", "full", "}">>, <<"prose", "{", "full", "}", "prose">>}
AttemptSucceeds(i) == gen.decoded[i] \in AcceptedTexts
AllAttemptsFail == \A i \in 1..Len(gen.decoded) : ~AttemptSucceeds(i)

====
